---------------------------- MODULE Spec2Model ----------------------------
(***************************************************************************)
(* Model of route_dynamics/route_energy/longi_dynam_model.py: the          *)
(* RouteTrajectory constructor, which extends the route table one column   *)
(* at a time (_add_dynamics_to_df), and energy_from_route.                  *)
(*                                                                         *)
(* Conventions.                                                            *)
(*  - Arrays are sequences: index i of the code is index i+1 here, so the  *)
(*    code's index 0 is 1 and its index N-1 (or -1) is N.                   *)
(*  - A float is a record [k, v]: k = "fin" with v the value in units of   *)
(*    1/Scale (fixed point, products and quotients truncated), k = "nan",  *)
(*    or k = "inf" with v the sign.  NaN and the infinities follow IEEE    *)
(*    754 as numpy applies it; the rounding of the low digits does not.    *)
(*  - The table route_df is a function from column names to arrays;        *)
(*    DataFrame.assign is Assign.                                          *)
(***************************************************************************)
EXTENDS Integers, Sequences, FiniteSets, TLC

VARIABLES
    route_df,   \* the table the pipeline extends: column name -> array
    attrs,      \* the attributes of self: the constructor's arguments, as
                \* _initialize_instance_args stores them, and what the stages store
    pc,         \* the stage _add_dynamics_to_df runs next; "done"; "failed"
    err,        \* the exception that ended the constructor, "none" otherwise
    log,        \* the stages that have run, in order
    energy      \* what energy_from_route last returned; [k |-> "unset"] before

vars == <<route_df, attrs, pc, err, log, energy>>

---------------------------------------------------------------------------
(* Bounds of the model.                                                    *)

\* Longest route, in points, among the routes of every spacing.
MaxN == 3
\* Longest route, in points, among the evenly spaced routes.
MaxEvenN == 4
\* Longest explicit stop list.
MaxStops == 2

---------------------------------------------------------------------------
(* Floats.                                                                 *)

Scale == 100 * 100

Fin(x) == [k |-> "fin", v |-> x]
NaN == [k |-> "nan", v |-> 0]
Inf(s) == [k |-> "inf", v |-> s]
Unset == [k |-> "unset", v |-> 0]

\* A whole number n as a float.
Whole(n) == Fin(n * Scale)

Abs(x) == IF x < 0 THEN -x ELSE x
Sgn(x) == IF x < 0 THEN -1 ELSE IF x > 0 THEN 1 ELSE 0

\* x*y/Scale truncated toward zero, computed in parts that stay within 32 bits.
FxMul(x, y) ==
    LET a == Abs(x)
        b == Abs(y)
        ah == a \div Scale
        al == a % Scale
        bh == b \div Scale
        bl == b % Scale
        m == ah * bh * Scale + ah * bl + al * bh + (al * bl) \div Scale
    IN  Sgn(x) * Sgn(y) * m

\* x*Scale/y truncated toward zero, for y # 0.
FxDiv(x, y) ==
    LET a == Abs(x)
        b == Abs(y)
        q == a \div b
        r == a % b
    IN  Sgn(x) * Sgn(y) * (q * Scale + (r * Scale) \div b)

IsNan(a) == a.k = "nan"
IsFin(a) == a.k = "fin"

Neg(a) == IF a.k = "nan" THEN NaN ELSE [k |-> a.k, v |-> -a.v]

Add(a, b) ==
    IF a.k = "nan" \/ b.k = "nan" THEN NaN
    ELSE IF a.k = "inf" /\ b.k = "inf" THEN (IF a.v = b.v THEN a ELSE NaN)
    ELSE IF a.k = "inf" THEN a
    ELSE IF b.k = "inf" THEN b
    ELSE Fin(a.v + b.v)

Sub(a, b) == Add(a, Neg(b))

Mul(a, b) ==
    IF a.k = "nan" \/ b.k = "nan" THEN NaN
    ELSE IF a.k = "inf" \/ b.k = "inf"
         THEN (IF a.v = 0 \/ b.v = 0 THEN NaN ELSE Inf(Sgn(a.v) * Sgn(b.v)))
    ELSE Fin(FxMul(a.v, b.v))

\* numpy's true division of float arrays: x/0 is an infinity, 0/0 is NaN.
Div(a, b) ==
    IF a.k = "nan" \/ b.k = "nan" THEN NaN
    ELSE IF a.k = "inf" THEN (IF b.k = "inf" THEN NaN
                              ELSE Inf(a.v * (IF b.v < 0 THEN -1 ELSE 1)))
    ELSE IF b.k = "inf" THEN Fin(0)
    ELSE IF b.v = 0 THEN (IF a.v = 0 THEN NaN ELSE Inf(Sgn(a.v)))
    ELSE Fin(FxDiv(a.v, b.v))

\* a < b; every comparison with NaN is false.
Lt(a, b) ==
    IF a.k = "nan" \/ b.k = "nan" THEN FALSE
    ELSE IF a.k = "inf" THEN a.v < 0 /\ ~(b.k = "inf" /\ b.v < 0)
    ELSE IF b.k = "inf" THEN b.v > 0
    ELSE a.v < b.v

\* a >= b; every comparison with NaN is false.
Ge(a, b) == a.k # "nan" /\ b.k # "nan" /\ ~Lt(a, b)

---------------------------------------------------------------------------
(* Arrays and the table.                                                   *)

Ones(n, x) == [i \in 1..n |-> x]

\* DataFrame.assign(name=column): a table with the column added (or replaced).
Assign(df, name, column) == (name :> column) @@ df

HasColumn(df, name) == name \in DOMAIN df

\* len(route_df.index)
NumPoints(df) == Len(df["coordinates"])

\* np.append(x, arr)
Prepend(x, arr) == <<x>> \o arr

\* arr[1:]
Rest(arr) == IF Len(arr) = 0 THEN <<>> ELSE SubSeq(arr, 2, Len(arr))

\* arr[:-1]
ButLast(arr) == IF Len(arr) = 0 THEN <<>> ELSE SubSeq(arr, 1, Len(arr) - 1)

\* np.diff(arr)
Diff(arr) == [i \in 1..(IF Len(arr) = 0 THEN 0 ELSE Len(arr) - 1) |->
                Sub(arr[i + 1], arr[i])]


\* np.cumsum(arr)
RECURSIVE CumSum(_)
CumSum(arr) ==
    IF Len(arr) = 0 THEN <<>>
    ELSE LET head == CumSum(ButLast(arr))
         IN  Append(head, IF Len(head) = 0 THEN arr[Len(arr)]
                          ELSE Add(head[Len(head)], arr[Len(arr)]))

\* np.sum(arr), from 0.0
RECURSIVE NpSum(_)
NpSum(arr) ==
    IF Len(arr) = 0 THEN Fin(0)
    ELSE Add(NpSum(ButLast(arr)), arr[Len(arr)])

---------------------------------------------------------------------------
(* The stages' names and the exceptions.                                   *)

IllegalArgumentError == "IllegalArgumentError"
AttributeError == "AttributeError"
TypeError == "TypeError"
UnboundLocalError == "UnboundLocalError"

constant_15mph == "constant_15mph"
stopped_at_stops == "stopped_at_stops__15mph_between"
const_accel == "const_accel_between_stops_and_speed_lim"

\* What a stage hands back: the exception it raised ("none": it returned), the
\* table it returned and the attributes of self after it.
Returned(df, at) == [err |-> "none", df |-> df, attrs |-> at]
Raised(e, df, at) == [err |-> e, df |-> df, attrs |-> at]

HasAttr(at, name) == name \in DOMAIN at
SetAttr(at, name, value) == (name :> value) @@ at

---------------------------------------------------------------------------
(* Nearest-neighbour matcher, knn.find_knn with k = 1.                     *)

SqDist(p, q) == (p[1] - q[1]) * (p[1] - q[1]) + (p[2] - q[2]) * (p[2] - q[2])

\* The lowest index of a candidate at the least Euclidean distance from q.
NearestIndex(candidate_pts, q) ==
    CHOOSE i \in 1..Len(candidate_pts) :
        /\ \A j \in 1..Len(candidate_pts) :
              SqDist(candidate_pts[i], q) <= SqDist(candidate_pts[j], q)
        /\ \A j \in 1..(i - 1) :
              SqDist(candidate_pts[j], q) > SqDist(candidate_pts[i], q)

\* find_knn(1, candidate_pts, test_pts): per query, the index of its nearest
\* candidate and that candidate.
find_knn(candidate_pts, test_pts) ==
    LET idx == [j \in 1..Len(test_pts) |-> NearestIndex(candidate_pts, test_pts[j])]
    IN  [indicies |-> idx,
         nn |-> [j \in 1..Len(test_pts) |-> candidate_pts[idx[j]]]]

\* tests/test_knn.py, test_find_knn: the candidates -1 and 1 on a line, and
\* queries on either side of 0; every query is to get the candidate of its side.
TestXs == {-3, -2, -1, 1, 2, 3}

test_find_knn ==
    LET train_data == <<<<-1, 0>>, <<1, 0>>>>
    IN  \A x1, x2 \in TestXs :
            LET test_data == <<<<x1, 0>>, <<x2, 0>>>>
                true_class == [j \in 1..2 |-> IF test_data[j][1] > 0 THEN 1 ELSE -1]
                found == find_knn(train_data, test_data)
            IN  \A j \in 1..2 : found.nn[j][1] = true_class[j]

---------------------------------------------------------------------------
(* Stop Locator: _add_stops_to_df.                                         *)

\* The loop of lines 310-311: route_df.at[i, 'is_bus_stop'] = True for the
\* first n resolved indices.
RECURSIVE MarkStops(_, _, _)
MarkStops(column, indicies, n) ==
    IF n = 0 THEN column
    ELSE [MarkStops(column, indicies, n - 1) EXCEPT ![indicies[n]] = TRUE]

\* add_stops_from_list with lines 320-321 in force: both ends marked as stops.
add_stops_from_list_ends_marked(stop_list, df, at) ==
    LET found == find_knn(df["coordinates"], stop_list)
        none == Ones(NumPoints(df), FALSE)
        marked == MarkStops(none, found.indicies, Len(found.indicies))
        ends == [[marked EXCEPT ![1] = TRUE] EXCEPT ![NumPoints(df)] = TRUE]
    IN  Returned(Assign(df, "is_bus_stop", ends),
                 SetAttr(SetAttr(at, "stop_nn_indicies", found.indicies),
                         "stop_coord_nn", found.nn))

\* add_stops_from_list with the two point sets of line 298 exchanged: the stop
\* coordinates are the candidates and the route points the queries.
add_stops_from_list_args_swapped(stop_list, df, at) ==
    LET found == find_knn(stop_list, df["coordinates"])
        marked == [i \in 1..NumPoints(df) |->
                      \E j \in 1..Len(found.indicies) : found.indicies[j] = i]
    IN  Returned(Assign(df, "is_bus_stop", marked),
                 SetAttr(SetAttr(at, "stop_nn_indicies", found.indicies),
                         "stop_coord_nn", found.nn))

\* The explicit-list branch: the column and the indices it stores on self.
add_stops_from_list(stop_list, df, at) ==
    LET found == find_knn(df["coordinates"], stop_list)
        none == Ones(NumPoints(df), FALSE)
        marked == MarkStops(none, found.indicies, Len(found.indicies))
    IN  Returned(Assign(df, "is_bus_stop", marked),
                 SetAttr(SetAttr(at, "stop_nn_indicies", found.indicies),
                         "stop_coord_nn", found.nn))

\* draw: what np.random.random(N) < .15 gives under the fixed seed; the generator
\* is not computed here, so the step that runs this stage lets draw be any array
\* of N booleans.  A string equal to 'random' that is another object fails the
\* identity test of line 276 and falls through to the last branch.
add_stops_to_df(stop_coords, df, at, draw) ==
    CASE stop_coords.kind = "random" ->
            Returned(Assign(df, "is_bus_stop", draw), at)
      [] stop_coords.kind = "None" ->
            Returned(Assign(df, "is_bus_stop", Ones(NumPoints(df), FALSE)), at)
      [] stop_coords.kind = "list" ->
            add_stops_from_list(stop_coords.val, df, at)
      [] OTHER -> Raised(IllegalArgumentError, df, at)

---------------------------------------------------------------------------
(* Kinematics Generator: _add_velocities_to_df.                            *)

\* 6.7056 m/s (= 15 mph)
lazy_choise_for_speed == Fin(67056)

\* stopped_at_stops_velocities without lines 377-378: the ends are not marked.
stopped_at_stops_velocities_ends_free(is_bus_stop) ==
    [i \in 1..Len(is_bus_stop) |->
        Mul(Whole(IF is_bus_stop[i] THEN 0 ELSE 1), lazy_choise_for_speed)]

\* Lines 371-381: 0 at the stops and at both ends, the cruise speed elsewhere.
stopped_at_stops_velocities(is_bus_stop) ==
    LET n == Len(is_bus_stop)
        zero_if_stop__one_if_not == [i \in 1..n |-> IF is_bus_stop[i] THEN 0 ELSE 1]
        start_marked == [zero_if_stop__one_if_not EXCEPT ![1] = 0]
        end_marked == [start_marked EXCEPT ![n] = 0]
    IN  [i \in 1..n |-> Mul(Whole(end_marked[i]), lazy_choise_for_speed)]

\* add_velocities_to_df whose stop-aware branch marks the two ends in the
\* table's own is_bus_stop array instead of in a copy of it.
add_velocities_to_df_in_place(df, at, bus_speed_model) ==
    CASE bus_speed_model = constant_15mph ->
            Returned(Assign(df, "velocity",
                            Ones(NumPoints(df), lazy_choise_for_speed)), at)
      [] bus_speed_model = stopped_at_stops ->
            LET marked == [[df["is_bus_stop"] EXCEPT ![1] = TRUE]
                              EXCEPT ![NumPoints(df)] = TRUE]
            IN  Returned(Assign(Assign(df, "is_bus_stop", marked), "velocity",
                                stopped_at_stops_velocities(marked)), at)
      [] bus_speed_model = const_accel ->
            Returned(Assign(df, "velocity", at["const_a_velocities"]), at)
      [] OTHER -> Raised(UnboundLocalError, df, at)

add_velocities_to_df(df, at, bus_speed_model) ==
    CASE bus_speed_model = constant_15mph ->
            Returned(Assign(df, "velocity",
                            Ones(NumPoints(df), lazy_choise_for_speed)), at)
      [] bus_speed_model = stopped_at_stops ->
            Returned(Assign(df, "velocity",
                            stopped_at_stops_velocities(df["is_bus_stop"])), at)
      [] bus_speed_model = const_accel ->
            Returned(Assign(df, "velocity", at["const_a_velocities"]), at)
      [] OTHER -> Raised(UnboundLocalError, df, at)

---------------------------------------------------------------------------
(* Time/Acceleration Derivator.                                            *)

\* The elapsed times as distance over the average velocity of the segment.
calculate_delta_times_distance_over_velocity(df) ==
    LET back_diff_delta_x == df["distance_from_last_point"]
        velocities == df["velocity"]
        shifted == Prepend(Fin(0), ButLast(velocities))
        segment_avg_velocities ==
            [i \in 1..Len(velocities) |->
                Div(Add(velocities[i], shifted[i]), Whole(2))]
    IN  [i \in 1..Len(velocities) |->
            Div(back_diff_delta_x[i], segment_avg_velocities[i])]

\* _calculate_delta_times_on_linestring_distance, alg = 'finite_diff'.
calculate_delta_times_on_linestring_distance(df) ==
    LET back_diff_delta_x == df["distance_from_last_point"]
        velocities == df["velocity"]
        shifted == Prepend(Fin(0), ButLast(velocities))
        segment_avg_velocities ==
            [i \in 1..Len(velocities) |->
                Div(Add(velocities[i], shifted[i]), Whole(2))]
    IN  [i \in 1..Len(velocities) |->
            Mul(back_diff_delta_x[i], segment_avg_velocities[i])]

add_delta_times_to_df(df, at, alg) ==
    IF alg = "finite_diff"
    THEN LET delta_times == calculate_delta_times_on_linestring_distance(df)
         IN  Returned(Assign(df, "delta_time", delta_times),
                      SetAttr(SetAttr(at, "delta_times", delta_times),
                              "time_on_route",
                              Prepend(Fin(0), CumSum(Rest(delta_times)))))
    ELSE Returned(Assign(df, "delta_time",
                         Prepend(Fin(0), Diff(at["route_time"]))), at)

\* _calculate_acceleration, alg = 'finite_diff': the backward difference of the
\* velocities over the elapsed times, NaN at the first point.
finite_diff_accelerations(df) ==
    LET velocity_array == df["velocity"]
        delta_v == Prepend(Fin(0), Diff(velocity_array))
        dt == df["delta_time"]
        quotient == [i \in 1..Len(Rest(dt)) |-> Div(Rest(delta_v)[i], Rest(dt)[i])]
    IN  [delta_v |-> delta_v, accelerations |-> Prepend(NaN, quotient)]


---------------------------------------------------------------------------
(* Bounded constant acceleration: constant_a.const_a_dynamics.  Between     *)
(* consecutive stops (the two ends of the route count as stops) the bus     *)
(* accelerates from 0 at a_m until it reaches v_lim or the middle of the    *)
(* segment, cruises, and decelerates symmetrically to 0.                    *)

RECURSIVE ISqrtIn(_, _, _)
ISqrtIn(n, lo, hi) ==
    IF lo >= hi THEN lo
    ELSE LET mid == (lo + hi + 1) \div 2
         IN  IF mid * mid <= n THEN ISqrtIn(n, mid, hi) ELSE ISqrtIn(n, lo, mid - 1)

\* The square root of a fixed-point value x >= 0.
FxSqrt(x) == ISqrtIn(x * Scale, 0, 46340)

Min(x, y) == IF x <= y THEN x ELSE y

\* One segment of length len: the state at distance x from its first stop, and
\* the time the whole segment takes.
SegmentProfile(x, len, a_m, v_lim) ==
    LET x_l == FxDiv(FxMul(v_lim, v_lim), 2 * a_m)
        ramp == Min(x_l, len \div 2)
        v_peak == FxSqrt(2 * FxMul(a_m, ramp))
        t_ramp == FxDiv(v_peak, a_m)
        t_cruise == IF v_peak = 0 THEN 0 ELSE FxDiv(len - 2 * ramp, v_peak)
        total == 2 * t_ramp + t_cruise
        v_up == FxSqrt(2 * FxMul(a_m, x))
        v_down == FxSqrt(2 * FxMul(a_m, len - x))
    IN  IF x < ramp
        THEN [v |-> v_up, a |-> a_m, t |-> FxDiv(v_up, a_m), total |-> total]
        ELSE IF x <= len - ramp
        THEN [v |-> v_peak, a |-> 0,
              t |-> t_ramp + (IF v_peak = 0 THEN 0 ELSE FxDiv(x - ramp, v_peak)),
              total |-> total]
        ELSE [v |-> v_down, a |-> -a_m, t |-> total - FxDiv(v_down, a_m),
              total |-> total]

\* The points where the bus stands: the flagged stops and both ends.
StandPoints(is_bus_stop) ==
    {i \in 1..Len(is_bus_stop) : is_bus_stop[i]} \cup {1, Len(is_bus_stop)}

SetMax(S) == CHOOSE x \in S : \A y \in S : y <= x
SetMin(S) == CHOOSE x \in S : \A y \in S : x <= y

\* The time at which the bus leaves stand point p.
RECURSIVE DepartureTime(_, _, _, _, _)
DepartureTime(p, stands, cum, a_m, v_lim) ==
    IF p = 1 THEN 0
    ELSE LET before == SetMax({s \in stands : s < p})
         IN  DepartureTime(before, stands, cum, a_m, v_lim)
             + SegmentProfile(0, cum[p] - cum[before], a_m, v_lim).total

const_a_dynamics(df, a_m, v_lim) ==
    LET n == NumPoints(df)
        stands == StandPoints(df["is_bus_stop"])
        cum == [i \in 1..n |-> df["cum_distance"][i].v]
        from(i) == SetMax({s \in stands : s <= i})
        to(i) == SetMin({s \in stands : s > i})
        at(i) == IF i = n
                 THEN [v |-> 0, a |-> IF n = 1 THEN 0 ELSE -a_m.v,
                       t |-> DepartureTime(n, stands, cum, a_m.v, v_lim.v)]
                 ELSE LET seg == SegmentProfile(cum[i] - cum[from(i)],
                                                cum[to(i)] - cum[from(i)],
                                                a_m.v, v_lim.v)
                      IN  [v |-> seg.v, a |-> seg.a,
                           t |-> DepartureTime(from(i), stands, cum, a_m.v, v_lim.v)
                                 + seg.t]
    IN  [accelerations |-> [i \in 1..n |-> Fin(at(i).a)],
         velocities |-> [i \in 1..n |-> Fin(at(i).v)],
         route_time |-> [i \in 1..n |-> Fin(at(i).t)]]

\* _calculate_acceleration, then _add_accelerations_to_df's assign.
add_accelerations_to_df(df, at, alg) ==
    CASE alg = "finite_diff" ->
            LET fd == finite_diff_accelerations(df)
            IN  Returned(Assign(df, "acceleration", fd.accelerations),
                         SetAttr(at, "delta_v", fd.delta_v))
      [] alg = const_accel ->
            LET ca == const_a_dynamics(df, at["a_m"], at["v_lim"])
            IN  Returned(Assign(df, "acceleration", ca.accelerations),
                         SetAttr(SetAttr(at, "const_a_velocities", ca.velocities),
                                 "route_time", ca.route_time))
      [] OTHER -> Raised(IllegalArgumentError, df, at)

---------------------------------------------------------------------------
(* Mass Profile Builder: _add_mass_to_df and calculate_mass.               *)

\* Lines 605-609: full_mass_column[stop_nn_indicies[i]] = mass_array[i] for the
\* first n entries, in order.
RECURSIVE SetStopMasses(_, _, _, _)
SetStopMasses(column, indicies, mass_array, n) ==
    IF n = 0 THEN column
    ELSE [SetStopMasses(column, indicies, mass_array, n - 1)
             EXCEPT ![indicies[n]] = mass_array[n]]

\* The while loop of lines 620-623 for one i: the NaN entries that follow i
\* directly take the value at i.  Past the end the index raises and the bare
\* except drops it.
RECURSIVE FillAfter(_, _, _)
FillAfter(column, i, j) ==
    IF i + j > Len(column) THEN column
    ELSE IF IsNan(column[i + j])
         THEN FillAfter([column EXCEPT ![i + j] = column[i]], i, j + 1)
         ELSE column

\* The for loop of lines 617-624, for i = 1 .. upto.
RECURSIVE FillLoop(_, _)
FillLoop(column, upto) ==
    IF upto = 0 THEN column
    ELSE FillAfter(FillLoop(column, upto - 1), upto, 1)

\* fill_mass_column without line 613: the last point is not reset to the mass
\* of the empty bus.
fill_mass_column_last_kept(n, indicies, mass_array, unloaded_bus_mass) ==
    LET blank == Ones(n, NaN)
        at_stops == SetStopMasses(blank, indicies, mass_array, Len(mass_array))
        first_set == [at_stops EXCEPT ![1] = unloaded_bus_mass]
    IN  FillAfter(FillLoop(first_set, n - 1), n - 1, 1)

\* Lines 599-624: the column before the check against the empty bus.
fill_mass_column(n, indicies, mass_array, unloaded_bus_mass) ==
    LET blank == Ones(n, NaN)
        at_stops == SetStopMasses(blank, indicies, mass_array, Len(mass_array))
        first_set == [at_stops EXCEPT ![1] = unloaded_bus_mass]
        last_set == [first_set EXCEPT ![n] = unloaded_bus_mass]
    IN  FillLoop(last_set, n - 1)

\* AnyBelow with np.all in place of np.any.
AllBelow(column, floor) == \A i \in 1..Len(column) : Lt(column[i], floor)

\* np.any(full_mass_column < unloaded_bus_mass)
AnyBelow(column, floor) == \E i \in 1..Len(column) : Lt(column[i], floor)

\* calculate_mass: [err, column].
calculate_mass(alg, len_check, n, at) ==
    IF alg = "list_per_stop" /\ len_check
    THEN IF ~HasAttr(at, "stop_nn_indicies")
         THEN [err |-> AttributeError, column |-> <<>>]
         ELSE LET full_mass_column ==
                      fill_mass_column(n, at["stop_nn_indicies"],
                                       at["mass_array"].val,
                                       at["unloaded_bus_mass"])
              IN  IF AnyBelow(full_mass_column, at["unloaded_bus_mass"])
                  THEN [err |-> IllegalArgumentError, column |-> <<>>]
                  ELSE [err |-> "none", column |-> full_mass_column]
    ELSE [err |-> IllegalArgumentError, column |-> <<>>]

\* len(self.stop_coords): a list has a length, 'random' is a string of six
\* characters, None has none (TypeError).
StopCoordsLen(stop_coords) ==
    CASE stop_coords.kind = "list" -> Len(stop_coords.val)
      [] stop_coords.kind \in {"random", "random_copy"} -> Len("random")
      [] OTHER -> -1

add_mass_to_df(df, at) ==
    IF at["mass_arg_is_list"]
    THEN IF at["stop_coords"].kind \notin {"list", "random", "random_copy"}
         THEN Raised(TypeError, df, at)
         ELSE LET lengths_equiv ==
                      Len(at["mass_array"].val) = StopCoordsLen(at["stop_coords"])
                  got == calculate_mass("list_per_stop", lengths_equiv,
                                        NumPoints(df), at)
              IN  IF got.err = "none"
                  THEN Returned(Assign(df, "mass", got.column), at)
                  ELSE Raised(got.err, df, at)
    ELSE Returned(Assign(df, "mass",
                         Ones(NumPoints(df), at["unloaded_bus_mass"])), at)


---------------------------------------------------------------------------
(* Force Model: calculate_forces and _add_forces_to_df.                    *)

gravi_accel == Fin(98100)
air_density == Fin(12250)
v_wind == Fin(0)
fric_coeff == Fin(100)
width == Fin(26000)
height == Fin(33000)
drag_coeff == Fin(3400)

\* np.sin(np.arctan(grad)) and np.cos(np.arctan(grad)), exact on the gradients
\* of the model: 0 and -3/4, +3/4 (the 3-4-5 triangle).
SinArctan(grad) ==
    CASE grad = Fin(0) -> Fin(0)
      [] grad = Fin(7500) -> Fin(6000)
      [] grad = Fin(-7500) -> Fin(-6000)

CosArctan(grad) ==
    CASE grad = Fin(0) -> Fin(10000)
      [] grad = Fin(7500) -> Fin(8000)
      [] grad = Fin(-7500) -> Fin(8000)

calculate_forces(rdf, at) ==
    LET n == NumPoints(rdf)
        vels == rdf["velocity"]
        acce == rdf["acceleration"]
        grad == rdf["gradient"]
        loaded_bus_mass(i) == IF at["mass_array"].kind = "None"
                              THEN at["unloaded_bus_mass"]
                              ELSE rdf["mass"][i]
        bus_front_area == Mul(width, height)
    IN  [grav_force |->
            [i \in 1..n |-> Neg(Mul(Mul(loaded_bus_mass(i), gravi_accel),
                                    SinArctan(grad[i])))],
         roll_fric |->
            [i \in 1..n |-> Neg(Mul(Mul(Mul(fric_coeff, loaded_bus_mass(i)),
                                        gravi_accel),
                                    CosArctan(grad[i])))],
         aero_drag |->
            [i \in 1..n |-> Neg(Mul(Mul(Mul(drag_coeff, bus_front_area),
                                        Div(air_density, Whole(2))),
                                    Sub(vels[i], v_wind)))],
         inertia |->
            [i \in 1..n |-> Mul(loaded_bus_mass(i), acce[i])]]

\* rdf.velocity of a table without that column raises AttributeError.
add_forces_to_df(df, at) ==
    IF ~(HasColumn(df, "velocity") /\ HasColumn(df, "acceleration"))
    THEN Raised(AttributeError, df, at)
    ELSE LET f == calculate_forces(df, at)
         IN  Returned(Assign(Assign(Assign(Assign(df,
                         "grav_force", f.grav_force),
                         "roll_fric", f.roll_fric),
                         "aero_drag", f.aero_drag),
                         "inertia", f.inertia), at)

---------------------------------------------------------------------------
(* Power/Energy Integrator.                                                *)

\* The raw power of lines 727-741: traction times velocity.
raw_batt_power(rdf) ==
    LET f_resist == [i \in 1..NumPoints(rdf) |->
                        Add(Add(rdf["grav_force"][i], rdf["roll_fric"][i]),
                            rdf["aero_drag"][i])]
        f_traction == [i \in 1..NumPoints(rdf) |->
                          Sub(rdf["inertia"][i], f_resist[i])]
    IN  [i \in 1..NumPoints(rdf) |-> Mul(f_traction[i], rdf["velocity"][i])]

\* cap_charging limiting the power drawn as well as the power returned.
cap_charging_both_ways(p, charging_power_max) ==
    IF Lt(p, Neg(charging_power_max)) THEN Neg(charging_power_max)
    ELSE IF Lt(charging_power_max, p) THEN charging_power_max
    ELSE p

\* The loop of lines 743-745 on one entry.
cap_charging(p, charging_power_max) ==
    IF Lt(p, Neg(charging_power_max)) THEN Neg(charging_power_max) ELSE p

calculate_batt_power_exert(rdf, at) ==
    LET raw == raw_batt_power(rdf)
    IN  [raw |-> raw,
         capped |-> [i \in 1..Len(raw) |->
                        cap_charging(raw[i], at["charging_power_max"])]]

add_power_to_df(rdf, at) ==
    LET p == calculate_batt_power_exert(rdf, at)
    IN  Returned(Assign(rdf, "power_output", p.capped),
                 SetAttr(at, "raw_batt_power_exert", p.raw))

\* energy_from_route without the [1:] slices.
energy_from_route_all_points(rdf) ==
    NpSum([i \in 1..NumPoints(rdf) |->
              Mul(rdf["power_output"][i], rdf["delta_time"][i])])

energy_from_route(rdf) ==
    LET delta_t == Rest(rdf["delta_time"])
        power == Rest(rdf["power_output"])
    IN  NpSum([i \in 1..Len(power) |-> Mul(power[i], delta_t[i])])


---------------------------------------------------------------------------
(* The inputs.                                                             *)

\* Distances between consecutive route points (0: a repeated point), in metres.
DistValues == {0, 1, 2}
\* Where a stop may be asked for.  (Stop lists are not empty and masses are
\* numbers: a NaN in mass_array is not among the inputs.)
QueryPts == {<<0, 0>>, <<1, 1>>, <<2, 0>>}
\* Masses a mass_array may hold: one below the empty bus, two above it.
MassValues == {Whole(2), Whole(4), Whole(5)}
EmptyBus == Whole(3)

NoneArg == [kind |-> "None", val |-> <<>>]
ListArg(l) == [kind |-> "list", val |-> l]
\* stop_coords = 'random', the literal; an equal string that is another object;
\* a value of a type _add_stops_to_df does not take.
RandomArg == [kind |-> "random", val |-> <<>>]
RandomCopyArg == [kind |-> "random_copy", val |-> <<>>]
OtherArg == [kind |-> "other", val |-> <<>>]

Models == {constant_15mph, stopped_at_stops, const_accel, "unknown_model"}

RECURSIVE RunningSum(_)
RunningSum(ds) ==
    IF Len(ds) = 0 THEN <<>>
    ELSE LET head == RunningSum(ButLast(ds))
         IN  Append(head, (IF Len(head) = 0 THEN 0 ELSE head[Len(head)]) + ds[Len(ds)])

\* build_route_coordinate_df: the table of a route along the x axis whose points
\* lie back_diff[i] apart, with the gradient grad.
build_route_coordinate_df(back_diff, grad) ==
    LET n == Len(back_diff) + 1
        xs == Prepend(0, RunningSum(back_diff))
    IN  [coordinates |-> [i \in 1..n |-> <<xs[i], 0>>],
         gradient |-> Ones(n, grad),
         distance_from_last_point |->
             Prepend(NaN, [i \in 1..(n - 1) |-> Whole(back_diff[i])]),
         elevation |-> [i \in 1..n |-> Mul(grad, Whole(xs[i]))],
         cum_distance |-> [i \in 1..n |-> Whole(xs[i])]]

\* Routes of up to MaxN points at every spacing, and evenly spaced routes of up
\* to MaxEvenN points.
Routes == UNION {[1..(n - 1) -> DistValues] : n \in 1..MaxN}
EvenRoutes == {[i \in 1..(n - 1) |-> 1] : n \in 1..MaxEvenN}

StopLists == UNION {[1..k -> QueryPts] : k \in 1..MaxStops}

Config(back_diff, model, stops, masses, physics) ==
    [back_diff |-> back_diff, bus_speed_model |-> model, stop_coords |-> stops,
     mass_array |-> masses, charging_power_max |-> physics[1], grad |-> physics[2]]

\* A charging limit with a gradient: level, downhill under three limits (the
\* raw power there is negative), uphill under a negative limit.
Physics ==
    {<<Whole(0), Fin(0)>>, <<Whole(0), Fin(-7500)>>, <<Whole(20), Fin(-7500)>>,
     <<Whole(50), Fin(-7500)>>, <<Whole(-10), Fin(7500)>>}

\* Explicit stop lists with mass arrays of every content, of the list's length
\* and one shorter and one longer, on the evenly spaced routes.
MassConfigs ==
    {Config(r, stopped_at_stops, ListArg(l), ListArg(m), <<Whole(0), Fin(0)>>) :
        r \in EvenRoutes, l \in StopLists,
        m \in UNION {[1..k -> MassValues] : k \in 1..MaxStops}
              \cup {<<>>, [i \in 1..(MaxStops + 1) |-> Whole(4)]}}

\* Every model, charging limit and gradient on every route, with no stops or one
\* stop, and the mass of the empty bus or one mass per stop.
KinematicConfigs ==
    {Config(r, model, stops, NoneArg, ph) :
        r \in Routes, model \in Models,
        stops \in {NoneArg} \cup {ListArg(<<q>>) : q \in QueryPts},
        ph \in Physics}
    \cup
    {Config(r, model, ListArg(<<q>>), ListArg(<<Whole(4)>>), ph) :
        r \in Routes, model \in Models, q \in QueryPts, ph \in Physics}

\* The stop_coords values that are no list, with and without a mass array.
PolicyConfigs ==
    {Config(r, model, stops, masses, <<Whole(0), Fin(0)>>) :
        r \in EvenRoutes,
        model \in {stopped_at_stops, const_accel, "unknown_model"},
        stops \in {NoneArg, RandomArg, RandomCopyArg, OtherArg},
        masses \in {NoneArg, ListArg(<<Whole(4)>>),
                    ListArg([i \in 1..Len("random") |-> Whole(4)])}}

Configs == MassConfigs \cup KinematicConfigs \cup PolicyConfigs

\* _initialize_instance_args
initialize_instance_args(c) ==
    [bus_speed_model |-> c.bus_speed_model,
     a_m |-> Whole(1),
     v_lim |-> Whole(15),
     stop_coords |-> c.stop_coords,
     mass_array |-> c.mass_array,
     unloaded_bus_mass |-> EmptyBus,
     mass_arg_is_list |-> c.mass_array.kind = "list",
     charging_power_max |-> c.charging_power_max]

---------------------------------------------------------------------------
(* The constructor's pipeline, _add_dynamics_to_df, one stage per step.    *)

FiniteDiffModels == {constant_15mph, stopped_at_stops}

\* NextStage without the branch of lines 174-189: the closed-form mode runs its
\* stages in the order of the finite-difference modes.
NextStage_one_order(bus_speed_model, stage) ==
    CASE stage = "stops" ->
            IF bus_speed_model \in FiniteDiffModels \cup {const_accel}
            THEN "velocities" ELSE "mass"
      [] stage = "velocities" -> "delta_times"
      [] stage = "delta_times" -> "accelerations"
      [] stage = "accelerations" -> "mass"
      [] stage = "mass" -> "forces"
      [] stage = "forces" -> "power"
      [] stage = "power" -> "done"

\* The stage that follows `stage` under bus_speed_model (lines 149-204).
NextStage(bus_speed_model, stage) ==
    CASE stage = "stops" ->
            IF bus_speed_model \in FiniteDiffModels THEN "velocities"
            ELSE IF bus_speed_model = const_accel THEN "accelerations"
            ELSE "mass"
      [] stage = "velocities" -> "delta_times"
      [] stage = "delta_times" ->
            IF bus_speed_model \in FiniteDiffModels THEN "accelerations" ELSE "mass"
      [] stage = "accelerations" ->
            IF bus_speed_model \in FiniteDiffModels THEN "mass" ELSE "velocities"
      [] stage = "mass" -> "forces"
      [] stage = "forces" -> "power"
      [] stage = "power" -> "done"

Init ==
    \E c \in Configs :
        /\ route_df = build_route_coordinate_df(c.back_diff, c.grad)
        /\ attrs = initialize_instance_args(c)
        /\ pc = "stops"
        /\ err = "none"
        /\ log = <<>>
        /\ energy = Unset

\* A stage has run: its table and attributes are kept and the next stage is
\* due, or its exception ends the constructor.
Step(stage, r) ==
    /\ log' = Append(log, stage)
    /\ attrs' = r.attrs
    /\ IF r.err = "none"
       THEN /\ route_df' = r.df
            /\ pc' = NextStage(attrs["bus_speed_model"], stage)
            /\ err' = err
       ELSE /\ route_df' = route_df
            /\ pc' = "failed"
            /\ err' = r.err
    /\ UNCHANGED energy

AddStops ==
    /\ pc = "stops"
    /\ \E draw \in (IF attrs["stop_coords"].kind = "random"
                    THEN [1..NumPoints(route_df) -> BOOLEAN]
                    ELSE {<<>>}) :
          Step("stops", add_stops_to_df(attrs["stop_coords"], route_df, attrs, draw))

AddVelocities ==
    /\ pc = "velocities"
    /\ Step("velocities",
            add_velocities_to_df(route_df, attrs, attrs["bus_speed_model"]))

AddDeltaTimes ==
    /\ pc = "delta_times"
    /\ Step("delta_times",
            add_delta_times_to_df(route_df, attrs,
                IF attrs["bus_speed_model"] \in FiniteDiffModels
                THEN "finite_diff" ELSE "model"))

AddAccelerations ==
    /\ pc = "accelerations"
    /\ Step("accelerations",
            add_accelerations_to_df(route_df, attrs,
                IF attrs["bus_speed_model"] \in FiniteDiffModels
                THEN "finite_diff" ELSE const_accel))

AddMass ==
    /\ pc = "mass"
    /\ Step("mass", add_mass_to_df(route_df, attrs))

AddForces ==
    /\ pc = "forces"
    /\ Step("forces", add_forces_to_df(route_df, attrs))

AddPower ==
    /\ pc = "power"
    /\ Step("power", add_power_to_df(route_df, attrs))

\* energy_from_route on the constructed object.
EnergyFromRoute ==
    /\ pc = "done"
    /\ energy' = energy_from_route(route_df)
    /\ UNCHANGED <<route_df, attrs, pc, err, log>>

Next ==
    \/ AddStops
    \/ AddVelocities
    \/ AddDeltaTimes
    \/ AddAccelerations
    \/ AddMass
    \/ AddForces
    \/ AddPower
    \/ EnergyFromRoute

Spec == Init /\ [][Next]_vars


---------------------------------------------------------------------------
(* What the claims speak of.                                               *)

N == NumPoints(route_df)
Has(column) == HasColumn(route_df, column)
Col(column) == route_df[column]
HasRun(stage) == \E i \in 1..Len(log) : log[i] = stage
LastRun == IF Len(log) = 0 THEN "none" ELSE log[Len(log)]
Floor == attrs["unloaded_bus_mass"]

\* The resolved stop indices and the masses given for them.
StopIdx == attrs["stop_nn_indicies"]
StopMass == attrs["mass_array"].val
StopSet == {StopIdx[j] : j \in 1..Len(StopIdx)}
\* The last stop of the list that resolves to route index i.
LastStopAt(i) == SetMax({j \in 1..Len(StopIdx) : StopIdx[j] = i})
\* The closest point before i that is a resolved stop or the first point.
AnchorBefore(i) == SetMax({p \in StopSet \cup {1} : p < i})

\* calculate_mass has returned a column built from a mass array.
MassFromList == Has("mass") /\ attrs["mass_arg_is_list"]

\* The parts of C1 that do not depend on which stop an index stands for.
C1_EndsAndFill ==
    /\ Col("mass")[1] = Floor
    /\ Col("mass")[N] = Floor
    /\ \A i \in 1..N : ~IsNan(Col("mass")[i])
    /\ \A i \in 2..(N - 1) :
          i \notin StopSet => Col("mass")[i] = Col("mass")[AnchorBefore(i)]

\* C1 as stated: the mass column of an explicit stop list is the mass of the
\* empty bus at both ends, at every resolved stop index strictly inside the route
\* the mass_array entry of that stop, and at every other point the mass of the
\* closest preceding stop or first point.
C1_AsStated ==
    MassFromList =>
        /\ C1_EndsAndFill
        /\ \A j \in 1..Len(StopIdx) :
              (1 < StopIdx[j] /\ StopIdx[j] < N)
                  => Col("mass")[StopIdx[j]] = StopMass[j]

\* C1, amended: as C1_AsStated, but where several stops of the list resolve to
\* one route index the mass there is the entry of the last of them.
C1_MassColumn ==
    MassFromList =>
        /\ C1_EndsAndFill
        /\ \A j \in 1..Len(StopIdx) :
              (1 < StopIdx[j] /\ StopIdx[j] < N)
                  => Col("mass")[StopIdx[j]] = StopMass[LastStopAt(StopIdx[j])]

\* A route of four points with stops resolved to its second and third points and
\* different masses given for them: each stop carries its own mass and the last
\* point is back at the mass of the empty bus; and a route whose third point is
\* no stop and carries the mass of the stop at the second.
C1_Witness ==
    /\ MassFromList
    /\ N = 4
    /\ 2 \in StopSet
    /\ Col("mass")[2] # Floor
    /\ \/ 3 \in StopSet /\ Col("mass")[3] # Col("mass")[2]
       \/ 3 \notin StopSet /\ Col("mass")[3] = Col("mass")[2]

\* Some mass_array entry that ends up in the column (it is the last given for an
\* index strictly inside the route) is below the mass of the empty bus.
BelowFloorEntry ==
    \E j \in 1..Len(StopIdx) :
        /\ 1 < StopIdx[j] /\ StopIdx[j] < N
        /\ j = LastStopAt(StopIdx[j])
        /\ Lt(StopMass[j], Floor)

\* The mass stage ran on a mass array as long as the explicit stop list.
MassStageOnList ==
    /\ HasRun("mass")
    /\ attrs["mass_arg_is_list"]
    /\ attrs["stop_coords"].kind = "list"
    /\ Len(StopMass) = Len(attrs["stop_coords"].val)

\* C2: no mass of a table is below the mass of the empty bus; a mass array that
\* would put one there fails the constructor with IllegalArgumentError, and no
\* mass column is made.
C2_MassFloor ==
    /\ Has("mass") => \A i \in 1..N : Ge(Col("mass")[i], Floor)
    /\ (MassStageOnList /\ BelowFloorEntry)
          => (pc = "failed" /\ err = IllegalArgumentError /\ ~Has("mass"))

\* The constructor failed in the mass stage on a mass below the empty bus.
C2_Witness ==
    /\ MassStageOnList
    /\ BelowFloorEntry
    /\ pc = "failed"
    /\ LastRun = "mass"

\* The raw power at point i, from the table's columns: traction times velocity.
RawPower(i) ==
    Mul(Sub(Col("inertia")[i],
            Add(Add(Col("grav_force")[i], Col("roll_fric")[i]), Col("aero_drag")[i])),
        Col("velocity")[i])
CapFloor == Neg(attrs["charging_power_max"])

\* What C3 says of one point, but for the lower bound.
C3_Capped(i) ==
    /\ Lt(RawPower(i), CapFloor) => Col("power_output")[i] = CapFloor
    /\ ~Lt(RawPower(i), CapFloor) => Col("power_output")[i] = RawPower(i)
    /\ (Ge(attrs["charging_power_max"], Fin(0)) /\ Lt(Fin(0), RawPower(i)))
          => Col("power_output")[i] = RawPower(i)

\* C3 as stated: power_output is -charging_power_max where the raw power is below
\* it and the raw power elsewhere, hence at least -charging_power_max at every
\* point, and no positive raw power is altered when charging_power_max >= 0.
C3_AsStated ==
    Has("power_output") =>
        \A i \in 1..N : C3_Capped(i) /\ Ge(Col("power_output")[i], CapFloor)

\* C3, amended: the lower bound holds at the points whose raw power is a number;
\* where the raw power is NaN (the first point of the finite-difference modes,
\* whose acceleration is NaN, and any point whose acceleration is 0/0)
\* power_output is NaN as well.
C3_PowerCap ==
    Has("power_output") =>
        \A i \in 1..N :
            /\ C3_Capped(i)
            /\ ~IsNan(RawPower(i)) => Ge(Col("power_output")[i], CapFloor)
            /\ IsNan(RawPower(i)) => IsNan(Col("power_output")[i])

\* A point whose raw power is below the limit and is capped, beside one whose raw
\* power is NaN, under a positive limit.
C3_Witness ==
    /\ Has("power_output")
    /\ Lt(Fin(0), attrs["charging_power_max"])
    /\ \E i \in 1..N : Lt(RawPower(i), CapFloor) /\ Col("power_output")[i] = CapFloor
    /\ \E i \in 1..N : IsNan(RawPower(i))


---------------------------------------------------------------------------

KnownModels == {constant_15mph, stopped_at_stops, const_accel}
Ended == pc \in {"done", "failed"}
\* A mass array was given without an explicit stop list.
MassWithoutStopList ==
    attrs["mass_arg_is_list"] /\ attrs["stop_coords"].kind # "list"

\* A configuration the spec names invalid: an unrecognised model, a stop_coords
\* value of a wrong type, or a mass array whose length is not that of the stop
\* list.  (A mass array without a stop list is left to C5 and C6.)
InvalidConfiguration ==
    /\ ~MassWithoutStopList
    /\ \/ attrs["bus_speed_model"] \notin KnownModels
       \/ attrs["stop_coords"].kind = "other"
       \/ /\ attrs["mass_arg_is_list"]
          /\ Len(StopMass) # Len(attrs["stop_coords"].val)

\* C4 as stated: the constructor ends every invalid configuration, an
\* unrecognised bus_speed_model among them, with IllegalArgumentError: never with
\* another exception, never with a table.
C4_AsStated ==
    (InvalidConfiguration /\ Ended) => (pc = "failed" /\ err = IllegalArgumentError)

\* The stop coordinates supplied: those of the list, none for None.
NumSupplied ==
    IF attrs["stop_coords"].kind = "list" THEN Len(attrs["stop_coords"].val) ELSE 0

\* C5 as stated: for every stop_coords the Stop Locator accepted (a list, or
\* None), a mass array of another length than the supplied stop coordinates ends
\* the mass stage with IllegalArgumentError and without a mass column.
C5_AsStated ==
    (/\ attrs["mass_arg_is_list"]
     /\ attrs["stop_coords"].kind \in {"list", "None"}
     /\ Len(StopMass) # NumSupplied
     /\ HasRun("mass"))
        => (pc = "failed" /\ err = IllegalArgumentError /\ ~Has("mass"))

\* C6 as stated: a mass array with stop_coords None or 'random' ends the mass
\* stage with the missing-precondition error ('Cant calculate from list', an
\* AttributeError), and no table with a mass column is made.
C6_AsStated ==
    (/\ attrs["mass_arg_is_list"]
     /\ attrs["stop_coords"].kind \in {"None", "random"}
     /\ HasRun("mass"))
        => (pc = "failed" /\ err = AttributeError /\ ~Has("mass"))

\* C7: in the stop-aware constant-speed mode the velocity is 0 at the first and
\* the last point, flagged or not, 0 at every flagged point, and 6.7056 at every
\* other point.
C7_StopAwareVelocity ==
    (attrs["bus_speed_model"] = stopped_at_stops /\ Has("velocity")) =>
        /\ N >= 1
        /\ Col("velocity")[1] = Fin(0)
        /\ Col("velocity")[N] = Fin(0)
        /\ \A i \in 1..N :
              Col("velocity")[i] =
                  IF Col("is_bus_stop")[i] \/ i = 1 \/ i = N
                  THEN Fin(0) ELSE Fin(67056)

\* A route of four points whose ends are not flagged, with a flagged and an
\* unflagged point between them.
C7_Witness ==
    /\ attrs["bus_speed_model"] = stopped_at_stops
    /\ Has("velocity")
    /\ N = 4
    /\ ~Col("is_bus_stop")[1] /\ ~Col("is_bus_stop")[4]
    /\ \E i, j \in 2..3 :
          /\ Col("is_bus_stop")[i] /\ Col("velocity")[i] = Fin(0)
          /\ ~Col("is_bus_stop")[j] /\ Col("velocity")[j] = Fin(67056)

\* Route point i is as near to the stop coordinate q as any route point.
IsNearest(i, q) ==
    \A k \in 1..N : SqDist(Col("coordinates")[i], q) <= SqDist(Col("coordinates")[k], q)

Flagged == {i \in 1..N : Col("is_bus_stop")[i]}

RECURSIVE EnergyUpTo(_)
EnergyUpTo(k) ==
    IF k <= 1 THEN Fin(0)
    ELSE Add(EnergyUpTo(k - 1), Mul(Col("power_output")[k], Col("delta_time")[k]))

\* C9: energy_from_route returns the sum over the points after the first of
\* power_output times delta_time, whatever the first point holds, and leaves the
\* table as it was.
C9_EnergySum ==
    /\ [](energy # Unset => energy = EnergyUpTo(N))
    /\ [][energy' # energy => route_df' = route_df]_vars

\* energy_from_route returned a number other than 0 for a table whose first
\* point holds NaN for the power and for the elapsed time.
C9_Witness ==
    /\ energy.k = "fin"
    /\ energy.v # 0
    /\ IsNan(Col("power_output")[1])
    /\ IsNan(Col("delta_time")[1])

\* C10: a stage leaves every column the table had with the values it had, in the
\* order it had: it only adds columns.
C10_StagesOnlyAppend ==
    [][\A c \in DOMAIN route_df :
          c \in DOMAIN route_df' /\ route_df'[c] = route_df[c]]_vars

\* The whole pipeline has run in the stop-aware mode on a table whose ends are
\* not flagged as stops though their velocity is 0, and a power has been capped.
C10_Witness ==
    /\ pc = "done"
    /\ \E i \in 1..N : Col("power_output")[i] # attrs["raw_batt_power_exert"][i]
    /\ attrs["bus_speed_model"] = stopped_at_stops
    /\ N >= 2
    /\ ~Col("is_bus_stop")[1] /\ ~Col("is_bus_stop")[N]
    /\ Col("velocity")[1] = Fin(0)
    /\ DOMAIN route_df =
          {"coordinates", "gradient", "distance_from_last_point", "elevation",
           "cum_distance", "is_bus_stop", "velocity", "delta_time",
           "acceleration", "mass", "grav_force", "roll_fric", "aero_drag",
           "inertia", "power_output"}

---------------------------------------------------------------------------
(* The matcher as the Stop Locator uses it.                                *)

StopNN == attrs["stop_coord_nn"]
Queries == attrs["stop_coords"].val
MatcherHasRun == HasAttr(attrs, "stop_nn_indicies")

---------------------------------------------------------------------------
(* The order of the stages.                                                *)

FiniteDiffOrder ==
    <<"stops", "velocities", "delta_times", "accelerations", "mass", "forces",
      "power">>
ClosedFormOrder ==
    <<"stops", "accelerations", "velocities", "delta_times", "mass", "forces",
      "power">>
StageOrder ==
    IF attrs["bus_speed_model"] = const_accel THEN ClosedFormOrder
    ELSE FiniteDiffOrder

IsPrefix(a, b) == Len(a) <= Len(b) /\ \A i \in 1..Len(a) : a[i] = b[i]
Due == IF Len(log) < Len(StageOrder) THEN StageOrder[Len(log) + 1] ELSE "done"
TimesRun(stage) == Cardinality({i \in 1..Len(log) : log[i] = stage})

\* What a stage reads that the constructor's arguments do not give it.
InputsReady(stage) ==
    LET model == attrs["bus_speed_model"]
    IN  CASE stage = "stops" -> Has("coordinates")
          [] stage = "velocities" ->
                /\ model = stopped_at_stops => Has("is_bus_stop")
                /\ model = const_accel => HasAttr(attrs, "const_a_velocities")
          [] stage = "delta_times" ->
                /\ model \in FiniteDiffModels =>
                      Has("velocity") /\ Has("distance_from_last_point")
                /\ model = const_accel => HasAttr(attrs, "route_time")
          [] stage = "accelerations" ->
                /\ model \in FiniteDiffModels => Has("velocity") /\ Has("delta_time")
                /\ model = const_accel => Has("is_bus_stop") /\ Has("cum_distance")
          [] stage = "mass" ->
                (attrs["mass_arg_is_list"] /\ attrs["stop_coords"].kind = "list")
                    => HasAttr(attrs, "stop_nn_indicies")
          [] stage = "forces" ->
                Has("velocity") /\ Has("acceleration") /\ Has("gradient")
                    /\ Has("mass")
          [] stage = "power" ->
                Has("grav_force") /\ Has("roll_fric") /\ Has("aero_drag")
                    /\ Has("inertia") /\ Has("velocity")
          [] OTHER -> TRUE

\* C12: in each of the three kinematic modes the stages that have run are the
\* first stages of the mode's order (stops first and once; then velocity, elapsed
\* time, acceleration in the finite-difference modes, and acceleration, velocity,
\* elapsed time in the closed-form mode; then mass, forces, power), the stage
\* that is due finds what it reads already produced, and no stage but the stop
\* and the mass stage, which check the constructor's arguments, fails.
C12_StageOrder ==
    attrs["bus_speed_model"] \in KnownModels =>
        /\ IsPrefix(log, StageOrder)
        /\ pc # "failed" => pc = Due /\ InputsReady(pc)
        /\ pc = "failed" => LastRun \in {"stops", "mass"}
        /\ TimesRun("stops") <= 1
        /\ (Has("velocity") \/ Has("delta_time") \/ Has("acceleration")
                \/ HasAttr(attrs, "const_a_velocities")
                \/ HasAttr(attrs, "route_time"))
              => Has("is_bus_stop") /\ TimesRun("stops") = 1
        /\ attrs["bus_speed_model"] = const_accel =>
              /\ Has("velocity") =>
                    /\ Has("acceleration")
                    /\ Col("velocity") = attrs["const_a_velocities"]
              /\ Has("delta_time") => Has("velocity")
        /\ attrs["bus_speed_model"] \in FiniteDiffModels =>
              /\ Has("delta_time") => Has("velocity")
              /\ Has("acceleration") => Has("delta_time")
        /\ Has("power_output") => Has("inertia")
        /\ Has("inertia") => Has("mass")
        /\ Has("mass") => Has("acceleration") /\ Has("delta_time")

\* The closed-form mode has run all its stages on a route with a stop between
\* its ends, and its velocity is not 0 everywhere.
C12_Witness ==
    /\ attrs["bus_speed_model"] = const_accel
    /\ pc = "done"
    /\ log = ClosedFormOrder
    /\ N >= 3
    /\ \E i \in 2..(N - 1) : Col("is_bus_stop")[i]
    /\ \E i \in 1..N : Col("velocity")[i] # Fin(0)

---------------------------------------------------------------------------
(* The finite differences.                                                 *)

FiniteDiffMode == attrs["bus_speed_model"] \in FiniteDiffModels

\* distance_from_previous[i] * (velocity[i] + velocity[i-1]) / 2
DistanceTimesAvgVelocity(i) ==
    Div(Mul(Col("distance_from_last_point")[i],
            Add(Col("velocity")[i], Col("velocity")[i - 1])),
        Whole(2))

\* (velocity[i] - velocity[i-1]) / delta_time[i]
VelocityDiffOverTime(i) ==
    Div(Sub(Col("velocity")[i], Col("velocity")[i - 1]), Col("delta_time")[i])

\* C13: in the two finite-difference modes the elapsed time of every point after
\* the first is the distance from the previous point multiplied by the average
\* of the two velocities, the acceleration of every point after the first is the
\* difference of the two velocities divided by that elapsed time, and the first
\* point has no elapsed time and no acceleration (NaN).
C13_FiniteDifferences ==
    FiniteDiffMode =>
        /\ Has("delta_time") =>
              /\ Len(Col("delta_time")) = N
              /\ IsNan(Col("delta_time")[1])
              /\ \A i \in 2..N : Col("delta_time")[i] = DistanceTimesAvgVelocity(i)
        /\ Has("acceleration") =>
              /\ Len(Col("acceleration")) = N
              /\ IsNan(Col("acceleration")[1])
              /\ \A i \in 2..N : Col("acceleration")[i] = VelocityDiffOverTime(i)

\* A segment of length 2 that the bus enters at rest and leaves at 6.7056: its
\* elapsed time is 2 * 3.3528 = 6.7056, not 2 / 3.3528, and its acceleration is 1.
C13_Witness ==
    /\ FiniteDiffMode
    /\ Has("acceleration")
    /\ \E i \in 2..N :
          /\ Col("distance_from_last_point")[i] = Whole(2)
          /\ Col("velocity")[i - 1] = Fin(0)
          /\ Col("velocity")[i] = Fin(67056)
          /\ Col("delta_time")[i] = Fin(67056)
          /\ Col("acceleration")[i] = Whole(1)

\* C14: in the two finite-difference modes the first point is the only one
\* whose elapsed time or acceleration is undefined: at every later point the
\* elapsed time is a number other than 0 and the acceleration is a number, also
\* where two adjacent points both have velocity 0, and the total that
\* energy_from_route returns is a number.
C14_AsStated ==
    FiniteDiffMode =>
        /\ Has("delta_time") =>
              \A i \in 2..N :
                  IsFin(Col("delta_time")[i]) /\ Col("delta_time")[i] # Fin(0)
        /\ Has("acceleration") =>
              \A i \in 2..N : IsFin(Col("acceleration")[i])
        /\ energy # Unset => IsFin(energy)

=============================================================================
